---- MODULE Spec2Model ----
(***************************************************************************)
(* Goal lifecycle of jumbo.cli: the event-sourced Goal aggregate, the      *)
(* claim (lease) policy with its file-backed claim store, and the command  *)
(* handlers that orchestrate them.  Every command invocation is a separate *)
(* CLI process; the steps of invocations of different workers interleave.  *)
(* Timestamps are integers (clock ticks) standing for ISO-8601 instants.   *)
(***************************************************************************)
EXTENDS Integers, Sequences, FiniteSets, TLC

VARIABLES now, claimsFile, events, rows, inv, begun, hist, agg, aggRes, last,
          workersFile, registry, access

vars == <<now, claimsFile, events, rows, inv, begun, hist, agg, aggRes, last,
          workersFile, registry, access>>

\* ---------------------------------------------------------------- bounds
MaxTime == 3
ClaimDuration == 2
MaxInvocations == 2
MaxHist == 3

\* ------------------------------------------------------------- universes
Workers == {"wA", "wB"}
Goals == {"g1", "g2"}
ExistingGoals == {"g1"}
Null == "null"
Notes == {Null, "n1"}

TODO == "to-do"
DOING == "doing"
BLOCKED == "blocked"
PAUSED == "paused"
INREVIEW == "in-review"
QUALIFIED == "qualified"
COMPLETED == "completed"

GoalStatus == {TODO, DOING, BLOCKED, PAUSED, INREVIEW, QUALIFIED, COMPLETED}

Ops == {"start", "pause", "resume", "submitForReview", "qualify", "complete", "reset"}

ADDED == "GoalAddedEvent"
STARTED == "GoalStartedEvent"
PAUSED_EVT == "GoalPausedEvent"
RESUMED == "GoalResumedEvent"
SUBMITTED_FOR_REVIEW == "GoalSubmittedForReviewEvent"
QUALIFIED_EVT == "GoalQualifiedEvent"
COMPLETED_EVT == "GoalCompletedEvent"
RESET_EVT == "GoalResetEvent"
BLOCKED_EVT == "GoalBlockedEvent"

\* ------------------------------------------------------------ claim store
NoClaim == [goalId |-> Null, claimedBy |-> Null, claimedAt |-> -1, claimExpiresAt |-> -1]

\* The claims document is the JSON object {claims: {goalId: claim}}: a set of
\* key/claim entries.  The content of claims.json is such a document (none when the file
\* does not exist yet), or something that cannot be read or parsed.
CorruptFile == {[key |-> "<not valid JSON>", claim |-> NoClaim]}

UnreadableFile == {[key |-> "<read error>", claim |-> NoClaim]}

BadFiles == {CorruptFile, UnreadableFile}

loadDataUnguarded(file) == file

loadData(file) == IF file \in BadFiles THEN {} ELSE file

saveData(data) == data

HasKey(file, goalId) == \E e \in loadData(file) : e.key = goalId

getClaim(file, goalId) ==
  LET data == loadData(file) IN
  IF \E e \in data : e.key = goalId
    THEN (CHOOSE e \in data : e.key = goalId).claim
    ELSE NoClaim

setClaimKeepOld(file, claim) ==
  saveData(loadData(file) \cup {[key |-> claim.goalId, claim |-> claim]})

setClaimIfAbsent(file, claim) ==
  IF HasKey(file, claim.goalId) THEN file
  ELSE saveData(loadData(file) \cup {[key |-> claim.goalId, claim |-> claim]})

setClaimOnlyThis(file, claim) == saveData({[key |-> claim.goalId, claim |-> claim]})

setClaim(file, claim) ==
  LET data == loadData(file) IN
  saveData({e \in data : e.key # claim.goalId} \cup {[key |-> claim.goalId, claim |-> claim]})

releaseClaimNoop(file, goalId) == file

releaseClaim(file, goalId) ==
  LET data == loadData(file) IN
  saveData({e \in data : e.key # goalId})

\* ----------------------------------------------------------- claim policy
Allowed == [allowed |-> TRUE, reason |-> Null, existingClaim |-> NoClaim]

Rejected(existingClaim) ==
  [allowed |-> FALSE, reason |-> "CLAIMED_BY_ANOTHER_WORKER", existingClaim |-> existingClaim]

canClaimStrictExpiry(data, clock, goalId, workerId) ==
  LET existingClaim == getClaim(data, goalId) IN
  IF existingClaim = NoClaim THEN Allowed
  ELSE IF clock > existingClaim.claimExpiresAt THEN Allowed
  ELSE IF existingClaim.claimedBy = workerId THEN Allowed
  ELSE Rejected(existingClaim)

canClaimNoOwnerCheck(data, clock, goalId, workerId) ==
  LET existingClaim == getClaim(data, goalId) IN
  IF existingClaim = NoClaim THEN Allowed
  ELSE IF clock >= existingClaim.claimExpiresAt THEN Allowed
  ELSE Rejected(existingClaim)

canClaimNeverExpires(data, clock, goalId, workerId) ==
  LET existingClaim == getClaim(data, goalId) IN
  IF existingClaim = NoClaim THEN Allowed
  ELSE IF existingClaim.claimedBy = workerId THEN Allowed
  ELSE Rejected(existingClaim)

canClaimExpiryFromClaimedAt(data, clock, goalId, workerId) ==
  LET existingClaim == getClaim(data, goalId) IN
  IF existingClaim = NoClaim THEN Allowed
  ELSE IF clock >= existingClaim.claimedAt THEN Allowed
  ELSE IF existingClaim.claimedBy = workerId THEN Allowed
  ELSE Rejected(existingClaim)


canClaim(data, clock, goalId, workerId) ==
  LET existingClaim == getClaim(data, goalId) IN
  IF existingClaim = NoClaim THEN Allowed
  ELSE IF clock >= existingClaim.claimExpiresAt THEN Allowed
  ELSE IF existingClaim.claimedBy = workerId THEN Allowed
  ELSE Rejected(existingClaim)

prepareClaimNoDuration(clock, goalId, workerId, durationMs) ==
  [goalId |-> goalId, claimedBy |-> workerId, claimedAt |-> clock, claimExpiresAt |-> clock]

prepareClaim(clock, goalId, workerId, durationMs) ==
  [goalId |-> goalId, claimedBy |-> workerId, claimedAt |-> clock,
   claimExpiresAt |-> clock + durationMs]

prepareRefreshedClaimNewClaimedAt(data, clock, goalId, workerId, durationMs) ==
  [goalId |-> goalId, claimedBy |-> workerId, claimedAt |-> clock,
   claimExpiresAt |-> clock + durationMs]

prepareRefreshedClaimKeepOwner(data, clock, goalId, workerId, durationMs) ==
  LET existingClaim == getClaim(data, goalId) IN
  [goalId |-> goalId,
   claimedBy |-> IF existingClaim = NoClaim THEN workerId ELSE existingClaim.claimedBy,
   claimedAt |-> IF existingClaim = NoClaim THEN clock ELSE existingClaim.claimedAt,
   claimExpiresAt |-> clock + durationMs]

prepareRefreshedClaim(data, clock, goalId, workerId, durationMs) ==
  LET existingClaim == getClaim(data, goalId) IN
  [goalId |-> goalId, claimedBy |-> workerId,
   claimedAt |-> IF existingClaim = NoClaim THEN clock ELSE existingClaim.claimedAt,
   claimExpiresAt |-> clock + durationMs]

\* createClaim and refreshClaim: the prepared claim, persisted at once.
createClaim(data, clock, goalId, workerId, durationMs) ==
  LET claim == prepareClaim(clock, goalId, workerId, durationMs) IN
  [claim |-> claim, store |-> setClaim(data, claim)]

refreshClaim(data, clock, goalId, workerId, durationMs) ==
  LET claim == prepareRefreshedClaim(data, clock, goalId, workerId, durationMs) IN
  [claim |-> claim, store |-> setClaim(data, claim)]

\* -------------------------------------------------------------- event log
NoEvent ==
  [type |-> Null, aggregateId |-> Null, version |-> 0, timestamp |-> -1, status |-> Null,
   note |-> Null, claimedBy |-> Null, claimedAt |-> -1, claimExpiresAt |-> -1]

Event(type, goalId, version, timestamp, status, note, claim) ==
  [type |-> type, aggregateId |-> goalId, version |-> version, timestamp |-> timestamp,
   status |-> status, note |-> note, claimedBy |-> claim.claimedBy,
   claimedAt |-> claim.claimedAt, claimExpiresAt |-> claim.claimExpiresAt]

\* A stored event is the domain event plus the storage sequence number.
Stored(event, seq) ==
  [f \in DOMAIN event \cup {"seq"} |-> IF f = "seq" THEN seq ELSE event[f]]

StripSeq(stored) == [f \in DOMAIN stored \ {"seq"} |-> stored[f]]

appendGlobalSeq(log, event) ==
  LET stream == log[event.aggregateId]
      stored == {<<g, i>> : g \in DOMAIN log, i \in 1..MaxHist} IN
  [log EXCEPT ![event.aggregateId] =
     Append(stream, Stored(event, Cardinality({p \in stored : p[2] <= Len(log[p[1]])}) + 1))]

append(log, event) ==
  LET stream == log[event.aggregateId] IN
  [log EXCEPT ![event.aggregateId] = Append(stream, Stored(event, Len(stream) + 1))]

readStream(log, goalId) == [i \in 1..Len(log[goalId]) |-> StripSeq(log[goalId][i])]

\* -------------------------------------------------------------- aggregate
EmptyGoalState(id) ==
  [id |-> id, objective |-> "", successCriteria |-> << >>, scopeIn |-> {}, scopeOut |-> {},
   boundaries |-> << >>, status |-> TODO, version |-> 0, note |-> Null]

applyVersionFromStatus(state, event) ==
  [state EXCEPT !.status = event.status,
                !.version = IF event.status = state.status THEN @ ELSE @ + 1]

applyClearsNote(state, event) ==
  LET bumped == [state EXCEPT !.version = @ + 1] IN
  CASE event.type = ADDED ->
         [bumped EXCEPT !.objective = "objective", !.successCriteria = <<"criterion">>,
                        !.scopeIn = {"component"}, !.boundaries = <<"boundary">>,
                        !.status = event.status]
    [] OTHER -> [bumped EXCEPT !.status = event.status, !.note = event.note]

apply(state, event) ==
  LET bumped == [state EXCEPT !.version = @ + 1] IN
  CASE event.type = ADDED ->
         [bumped EXCEPT !.objective = "objective", !.successCriteria = <<"criterion">>,
                        !.scopeIn = {"component"}, !.boundaries = <<"boundary">>,
                        !.status = event.status]
    [] event.type \in {PAUSED_EVT, RESUMED, BLOCKED_EVT} ->
         [bumped EXCEPT !.status = event.status,
                        !.note = IF event.note = Null THEN @ ELSE event.note]
    [] OTHER -> [bumped EXCEPT !.status = event.status]

RECURSIVE foldRight(_, _)
foldRight(state, history) ==
  IF history = << >> THEN state
  ELSE apply(foldRight(state, Tail(history)), Head(history))

RECURSIVE fold(_, _)
fold(state, history) ==
  IF history = << >> THEN state
  ELSE fold(apply(state, Head(history)), Tail(history))

rehydrate(id, history) == fold(EmptyGoalState(id), history)

NoError == [code |-> Null, status |-> Null, expiresAt |-> -1]

Ok(event) == [ok |-> TRUE, event |-> event, error |-> NoError]

Fail(code, status) ==
  [ok |-> FALSE, event |-> NoEvent,
   error |-> [code |-> code, status |-> status, expiresAt |-> -1]]

CanSubmitForReviewRuleAlsoPaused(state) ==
  LET validStatuses == {DOING, BLOCKED, PAUSED}
      isValid == state.status \in validStatuses IN
  [isValid |-> isValid,
   errors |-> IF isValid THEN << >>
              ELSE <<[code |-> "CANNOT_SUBMIT_FOR_REVIEW_IN_STATUS", status |-> state.status,
                      expiresAt |-> -1]>>]

CanSubmitForReviewRule(state) ==
  LET validStatuses == {DOING, BLOCKED}
      isValid == state.status \in validStatuses IN
  [isValid |-> isValid,
   errors |-> IF isValid THEN << >>
              ELSE <<[code |-> "CANNOT_SUBMIT_FOR_REVIEW_IN_STATUS", status |-> state.status,
                      expiresAt |-> -1]>>]

\* The From statuses of each transition and the status it leads to.
FromStatuses(op) ==
  CASE op = "start" -> {TODO}
    [] op = "pause" -> {DOING, BLOCKED}
    [] op = "resume" -> {PAUSED}
    [] op = "submitForReview" -> {DOING, BLOCKED}
    [] op = "qualify" -> {INREVIEW}
    [] op = "complete" -> {QUALIFIED}
    [] op = "reset" -> GoalStatus \ {COMPLETED}

ToStatus(op) ==
  CASE op = "start" -> DOING
    [] op = "pause" -> PAUSED
    [] op = "resume" -> DOING
    [] op = "submitForReview" -> INREVIEW
    [] op = "qualify" -> QUALIFIED
    [] op = "complete" -> COMPLETED
    [] op = "reset" -> TODO

EventType(op) ==
  CASE op = "start" -> STARTED
    [] op = "pause" -> PAUSED_EVT
    [] op = "resume" -> RESUMED
    [] op = "submitForReview" -> SUBMITTED_FOR_REVIEW
    [] op = "qualify" -> QUALIFIED_EVT
    [] op = "complete" -> COMPLETED_EVT
    [] op = "reset" -> RESET_EVT

ErrorCode(op) ==
  CASE op = "start" -> "CANNOT_START_IN_STATUS"
    [] op = "pause" -> "CANNOT_PAUSE_IN_STATUS"
    [] op = "resume" -> "CANNOT_RESUME_IN_STATUS"
    [] op = "submitForReview" -> "CANNOT_SUBMIT_FOR_REVIEW_IN_STATUS"
    [] op = "qualify" -> "CANNOT_QUALIFY_IN_STATUS"
    [] op = "complete" -> "CANNOT_COMPLETE_IN_STATUS"
    [] op = "reset" -> "CANNOT_RESET_IN_STATUS"

\* goal.start(claim), goal.pause(note), goal.resume(note, claim), goal.submitForReview(),
\* goal.qualify(), goal.complete(), goal.reset(): guard, then the new event.
submitForReview(state, clock) ==
  LET validation == CanSubmitForReviewRule(state) IN
  IF validation.isValid
    THEN Ok(Event(SUBMITTED_FOR_REVIEW, state.id, state.version + 1, clock, INREVIEW, Null,
                  NoClaim))
    ELSE [ok |-> FALSE, event |-> NoEvent, error |-> validation.errors[1]]

transition(state, op, clock, note, claim) ==
  IF op = "submitForReview" THEN submitForReview(state, clock)
  ELSE IF state.status \in FromStatuses(op)
    THEN Ok(Event(EventType(op), state.id, state.version + 1, clock, ToStatus(op),
                  IF op \in {"pause", "resume"} THEN note ELSE Null,
                  IF op \in {"start", "resume"} THEN claim ELSE NoClaim))
    ELSE Fail(ErrorCode(op), state.status)

\* ------------------------------------------------------------- read model
NoRow == [objective |-> Null, status |-> Null, version |-> 0, createdAt |-> -1,
          updatedAt |-> -1, claimedBy |-> Null, claimedAt |-> -1, claimExpiresAt |-> -1]

findById(table, goalId) == table[goalId]

applyGoalQualifiedAllRows(table, event) ==
  [g \in DOMAIN table |->
     IF table[g] = NoRow THEN NoRow
     ELSE [table[g] EXCEPT !.status = event.status, !.claimedBy = Null, !.claimedAt = -1,
                           !.claimExpiresAt = -1, !.version = event.version,
                           !.updatedAt = event.timestamp]]

applyGoalQualified(table, event) ==
  IF table[event.aggregateId] = NoRow THEN table
  ELSE [table EXCEPT ![event.aggregateId] =
          [@ EXCEPT !.status = event.status, !.claimedBy = Null, !.claimedAt = -1,
                    !.claimExpiresAt = -1, !.version = event.version,
                    !.updatedAt = event.timestamp]]

\* The projectors of the other event types: a targeted update of the goal's row.
applyGoalEvent(table, event) ==
  IF table[event.aggregateId] = NoRow THEN table
  ELSE IF event.type \in {STARTED, RESUMED}
    THEN [table EXCEPT ![event.aggregateId] =
            [@ EXCEPT !.status = event.status, !.claimedBy = event.claimedBy,
                      !.claimedAt = event.claimedAt,
                      !.claimExpiresAt = event.claimExpiresAt,
                      !.version = event.version, !.updatedAt = event.timestamp]]
    ELSE [table EXCEPT ![event.aggregateId] =
            [@ EXCEPT !.status = event.status, !.version = event.version,
                      !.updatedAt = event.timestamp]]

publish(table, event) ==
  IF event.type = QUALIFIED_EVT THEN applyGoalQualified(table, event)
  ELSE applyGoalEvent(table, event)

\* ------------------------------------------------------- command handlers
Idle ==
  [pc |-> "idle", op |-> Null, goal |-> Null, note |-> Null, validation |-> Allowed,
   state |-> EmptyGoalState(Null), claim |-> NoClaim, event |-> NoEvent, error |-> NoError,
   effects |-> << >>, after |-> << >>, calls |-> << >>]

InFlight(w) == inv[w].pc \notin {"idle", "done", "failed", "crashed"}

AddedEvent(goalId) ==
  [type |-> ADDED, aggregateId |-> goalId, version |-> 1, timestamp |-> 0, status |-> TODO,
   note |-> Null, claimedBy |-> Null, claimedAt |-> -1, claimExpiresAt |-> -1]

NeedsClaimData(op) == op \in {"start", "resume"}

TouchesClaimStore(op) == op \in {"start", "resume", "complete", "reset"}

claimStoreStepFreshClaim(data, op, goalId, claim) ==
  IF NeedsClaimData(op)
    THEN setClaim(data, prepareClaim(now, goalId, claim.claimedBy, ClaimDuration))
  ELSE IF TouchesClaimStore(op) THEN releaseClaim(data, goalId)
  ELSE data

claimStoreStep(data, op, goalId, claim) ==
  IF NeedsClaimData(op) THEN setClaim(data, claim)
  ELSE IF TouchesClaimStore(op) THEN releaseClaim(data, goalId)
  ELSE data

\* prepareClaim and prepareRefreshedClaim compute the claim data and leave the claim
\* store as it is (createClaim and refreshClaim are the variants that persist).
claimStoreAfterCreate(data, claim) == setClaim(data, claim)

claimStoreAfterPrepare(data, claim) == data

\* The side effects of a handler after the domain logic, in the order of its awaits.
HandlerStepsClaimFirst(op) ==
  IF TouchesClaimStore(op) THEN <<"claimStore", "append", "publish">>
  ELSE <<"append", "publish">>

HandlerStepsPublishFirst(op) ==
  IF TouchesClaimStore(op) THEN <<"publish", "append", "claimStore">>
  ELSE <<"publish", "append">>

HandlerSteps(op) ==
  IF TouchesClaimStore(op) THEN <<"append", "claimStore", "publish">>
  ELSE <<"append", "publish">>

NextPc(op, effects) ==
  IF Len(effects) < Len(HandlerSteps(op)) THEN HandlerSteps(op)[Len(effects) + 1]
  ELSE "done"

\* The stores right after goal creation: every existing goal has its Added event and its
\* projection row; nothing is claimed.
Created ==
  [claimsFile |-> {},
   events |-> [g \in Goals |->
                 IF g \in ExistingGoals THEN <<Stored(AddedEvent(g), 1)>> ELSE << >>],
   rows |-> [g \in Goals |->
               IF g \in ExistingGoals
                 THEN [objective |-> "objective", status |-> TODO, version |-> 1,
                       createdAt |-> 0, updatedAt |-> 0, claimedBy |-> Null,
                       claimedAt |-> -1, claimExpiresAt |-> -1]
                 ELSE NoRow]]

\* One handler invocation run from its first step to its last with nothing in between.
execute(store, op, goalId, w, clock, note) ==
  LET view == findById(store.rows, goalId)
      claimValidation == canClaim(store.claimsFile, clock, goalId, w)
      goal == rehydrate(goalId, readStream(store.events, goalId))
      claim == CASE op = "start" -> prepareClaim(clock, goalId, w, ClaimDuration)
                 [] op = "resume" ->
                      prepareRefreshedClaim(store.claimsFile, clock, goalId, w, ClaimDuration)
                 [] OTHER -> NoClaim
      res == transition(goal, op, clock, note, claim) IN
  IF view = NoRow \/ ~claimValidation.allowed THEN store
  ELSE IF ~res.ok
    THEN IF NeedsClaimData(op)
           THEN [store EXCEPT !.claimsFile = claimStoreAfterPrepare(@, claim)]
           ELSE store
  ELSE [claimsFile |-> claimStoreStep(IF NeedsClaimData(op)
                                        THEN claimStoreAfterPrepare(store.claimsFile, claim)
                                        ELSE store.claimsFile, op, goalId, claim),
        events |-> append(store.events, res.event),
        rows |-> publish(store.rows, res.event)]

RECURSIVE executeAll(_, _, _, _)
executeAll(store, ops, goalId, w) ==
  IF ops = << >> THEN store
  ELSE executeAll(execute(store, Head(ops), goalId, w, 0, Null), Tail(ops), goalId, w)

\* The lifecycle stages a run starts from: goal g1 taken by worker wA at time 0 through a
\* prefix of its lifecycle.
Stages ==
  {<< >>, <<"start">>, <<"start", "pause">>, <<"start", "submitForReview">>,
   <<"start", "submitForReview", "qualify">>}

InitHandlers ==
  \E stage \in Stages :
    LET store == executeAll(Created, stage, "g1", "wA") IN
    /\ now = 0
    /\ claimsFile = store.claimsFile
    /\ events = store.events
    /\ rows = store.rows
    /\ inv = [w \in Workers |-> Idle]
    /\ begun = 0

NoCall == [op |-> Null, before |-> EmptyGoalState(Null), ok |-> TRUE, event |-> NoEvent,
           error |-> NoError, produced |-> 0]

\* The record of the last direct call of a store operation (none in the handler runs).
NoLast == [fn |-> Null]

\* The CLI processes that construct a worker identity registry, and one that has not.
Procs == {"p1", "p2"}

\* workerIds are the numbers of the UUIDs generated; 0 stands for none.
NoWorkerId == 0

NoRegistry ==
  [pc |-> "none", hostSessionKey |-> Null, loaded |-> {}, resolvedWorkerId |-> NoWorkerId]

\* A process that is not inside a call of the claim store.
NoStoreAccess == [pc |-> "idle", fn |-> Null, goalId |-> Null, claim |-> NoClaim, data |-> {}]

InitNoRegistry ==
  /\ workersFile = {}
  /\ registry = [p \in Procs |-> NoRegistry]
  /\ access = [p \in Procs |-> NoStoreAccess]

InitAggregate ==
  /\ hist = << >>
  /\ agg = EmptyGoalState("g1")
  /\ aggRes = NoCall
  /\ last = NoLast
  /\ InitNoRegistry

Init == InitHandlers /\ InitAggregate

handlerVars == <<now, claimsFile, events, rows, inv, begun>>
aggVars == <<hist, agg, aggRes, last, workersFile, registry, access>>

NotFound == [code |-> "GOAL_NOT_FOUND", status |-> Null, expiresAt |-> -1]

ClaimedByAnotherWorkerNoExpiry(existingClaim) ==
  [code |-> "GOAL_CLAIMED_BY_ANOTHER_WORKER", status |-> Null, expiresAt |-> -1]

ClaimedByAnotherWorker(existingClaim) ==
  [code |-> "GOAL_CLAIMED_BY_ANOTHER_WORKER", status |-> Null,
   expiresAt |-> existingClaim.claimExpiresAt]

\* The order in which a controller's handle calls its collaborators: the claim policy,
\* the goal reader (Review and Qualify look the goal up before the handler, all three
\* after it, for the response) and the command handler.
ControllerStepsFindFirst(op) ==
  IF op = "complete" THEN <<"execute", "canClaim", "findById">>
  ELSE <<"findById", "canClaim", "execute", "findById">>

ControllerSteps(op) ==
  IF op = "complete" THEN <<"canClaim", "execute", "findById">>
  ELSE <<"canClaim", "findById", "execute", "findById">>

\* What an invocation leaves behind when it returns or throws.
Outcome(w, pc, error) ==
  [Idle EXCEPT !.pc = pc, !.op = inv[w].op, !.goal = inv[w].goal, !.error = error,
               !.effects = inv[w].effects, !.after = inv[w].after, !.calls = inv[w].calls]

\* The invocation has performed one more of its side effects and goes on to the next, or
\* returns.
Advance(w, step) ==
  LET effects == Append(inv[w].effects, step)
      pc == NextPc(inv[w].op, effects) IN
  IF pc = "done"
    THEN [Outcome(w, IF inv[w].calls = << >> THEN "done" ELSE "controller", NoError)
            EXCEPT !.effects = effects]
  ELSE [inv[w] EXCEPT !.pc = pc, !.effects = effects]

\* A refused claim: the invocation throws at once.
ClaimRefusedWaits(started, claimValidation) ==
  [started EXCEPT !.pc = "waiting", !.validation = claimValidation]

ClaimRefused(started, claimValidation) ==
  [started EXCEPT !.pc = "failed", !.note = Null, !.validation = claimValidation,
                  !.error = ClaimedByAnotherWorker(claimValidation.existingClaim)]

\* The first two steps of a handler's execute:
\* 1. check the goal exists in the projection, 2. validate the claim policy.
HandlerEntry(w, started) ==
  LET view == findById(rows, started.goal)
      claimValidation == canClaim(claimsFile, now, started.goal, w) IN
  IF view = NoRow
    THEN [started EXCEPT !.pc = "failed", !.note = Null, !.error = NotFound]
  ELSE IF ~claimValidation.allowed THEN ClaimRefused(started, claimValidation)
  ELSE [started EXCEPT !.pc = "rehydrate"]

\* A worker runs a command (a new CLI process executes the handler).
FindByIdCanClaim(w, op, g, note) ==
  /\ ~InFlight(w)
  /\ begun < MaxInvocations
  /\ note # Null => op \in {"pause", "resume"}
  /\ LET retried == inv[w].pc = "crashed" /\ inv[w].op = op /\ inv[w].goal = g
         started == [Idle EXCEPT !.op = op, !.goal = g, !.note = note,
                                 !.after = IF retried THEN inv[w].effects ELSE << >>] IN
     inv' = [inv EXCEPT ![w] = HandlerEntry(w, started)]
  /\ begun' = begun + 1
  /\ UNCHANGED <<now, claimsFile, events, rows, aggVars>>

\* goal.<op>(...) on the rehydrated aggregate: the invocation goes on with the event, or
\* throws the domain error.
Proceed(w, state, claim) ==
  LET res == transition(state, inv[w].op, now, inv[w].note, claim) IN
  IF res.ok
    THEN [inv[w] EXCEPT !.pc = NextPc(inv[w].op, << >>), !.state = EmptyGoalState(Null),
                        !.note = Null, !.claim = claim, !.event = res.event]
    ELSE Outcome(w, "failed", res.error)

\* 3. Rehydrate aggregate from event history.  Handlers that embed no claim data call the
\* domain logic at once; start and resume first read the settings.
Rehydrate(w) ==
  /\ inv[w].pc = "rehydrate"
  /\ LET history == readStream(events, inv[w].goal)
         goal == rehydrate(inv[w].goal, history) IN
     inv' = [inv EXCEPT ![w] =
               IF NeedsClaimData(inv[w].op)
                 THEN [@ EXCEPT !.pc = "prepare", !.state = goal]
                 ELSE Proceed(w, goal, NoClaim)]
  /\ UNCHANGED <<now, claimsFile, events, rows, begun, aggVars>>

\* 4. Prepare claim data, 5. domain logic produces the event with the claim data.
PrepareClaimAndTransition(w) ==
  /\ inv[w].pc = "prepare"
  /\ LET claim == IF inv[w].op = "start"
                    THEN prepareClaim(now, inv[w].goal, w, ClaimDuration)
                    ELSE prepareRefreshedClaim(claimsFile, now, inv[w].goal, w,
                                               ClaimDuration) IN
     /\ inv' = [inv EXCEPT ![w] = Proceed(w, inv[w].state, claim)]
     /\ claimsFile' = claimStoreAfterPrepare(claimsFile, claim)
  /\ UNCHANGED <<now, events, rows, begun, aggVars>>

\* 6. Persist event to file store
AppendEvent(w) ==
  /\ inv[w].pc = "append"
  /\ events' = append(events, inv[w].event)
  /\ inv' = [inv EXCEPT ![w] = Advance(w, "append")]
  /\ UNCHANGED <<now, claimsFile, rows, begun, aggVars>>

\* 7. Store claim (start, resume) or release it (complete, reset)
UpdateClaimStore(w) ==
  /\ inv[w].pc = "claimStore"
  /\ claimsFile' = claimStoreStep(claimsFile, inv[w].op, inv[w].goal, inv[w].claim)
  /\ inv' = [inv EXCEPT ![w] = Advance(w, "claimStore")]
  /\ UNCHANGED <<now, events, rows, begun, aggVars>>

\* 8. Publish event to bus (projections update via subscriptions)
Publish(w) ==
  /\ inv[w].pc = "publish"
  /\ rows' = publish(rows, inv[w].event)
  /\ inv' = [inv EXCEPT ![w] = Advance(w, "publish")]
  /\ UNCHANGED <<now, claimsFile, events, begun, aggVars>>

\* The clock advances.
Tick ==
  /\ now < MaxTime
  /\ now' = now + 1
  /\ UNCHANGED <<claimsFile, events, rows, inv, begun, aggVars>>

Next ==
  \/ \E w \in Workers, op \in Ops, g \in Goals, note \in Notes :
       FindByIdCanClaim(w, op, g, note)
  \/ \E w \in Workers : Rehydrate(w)
  \/ \E w \in Workers : PrepareClaimAndTransition(w)
  \/ \E w \in Workers : AppendEvent(w)
  \/ \E w \in Workers : UpdateClaimStore(w)
  \/ \E w \in Workers : Publish(w)
  \/ Tick

Spec == Init /\ [][Next]_vars

\* Invocations that do not overlap: a command begins only when no other one is running.
BeginAlone(w, op, g, note) ==
  /\ \A v \in Workers : ~InFlight(v)
  /\ FindByIdCanClaim(w, op, g, note)

NextSeq ==
  \/ \E w \in Workers, op \in Ops, g \in Goals, note \in Notes : BeginAlone(w, op, g, note)
  \/ \E w \in Workers : Rehydrate(w)
  \/ \E w \in Workers : PrepareClaimAndTransition(w)
  \/ \E w \in Workers : AppendEvent(w)
  \/ \E w \in Workers : UpdateClaimStore(w)
  \/ \E w \in Workers : Publish(w)
  \/ Tick

SpecSeq == Init /\ [][NextSeq]_vars

\* The CLI process of an invocation dies between two of its steps.
Crash(w) ==
  /\ InFlight(w)
  /\ inv' = [inv EXCEPT ![w] = Outcome(w, "crashed", NoError)]
  /\ UNCHANGED <<now, claimsFile, events, rows, begun, aggVars>>

NextCrash ==
  \/ Next
  \/ \E w \in Workers : Crash(w)

SpecCrash == Init /\ [][NextCrash]_vars

\* ------------------------------------------------------------ controllers
ControllerOps == {"submitForReview", "qualify", "complete"}

\* QualifyGoalController: "Verify goal is in in-review status" on the goal view.
ViewIsInReviewOrDoing(view) == view.status \in {INREVIEW, DOING}

ViewIsInReview(view) == view.status = INREVIEW

CannotQualifyInStatus(view) ==
  [code |-> "CANNOT_QUALIFY_IN_STATUS", status |-> view.status, expiresAt |-> -1]

\* The next call of a controller's handle, on the invocation record rec of worker w.
ControllerCall(w, rec) ==
  LET call == ControllerSteps(rec.op)[Len(rec.calls) + 1]
      called == [rec EXCEPT !.calls = Append(@, call)]
      claimValidation == canClaim(claimsFile, now, rec.goal, w)
      view == findById(rows, rec.goal)
      thrown == [called EXCEPT !.pc = "failed"] IN
  CASE call = "canClaim" ->
         IF ~claimValidation.allowed
           THEN [thrown EXCEPT !.validation = claimValidation,
                               !.error = ClaimedByAnotherWorker(
                                           claimValidation.existingClaim)]
           ELSE called
    [] call = "findById" ->
         IF view = NoRow THEN [thrown EXCEPT !.error = NotFound]
         ELSE IF "execute" \in {rec.calls[i] : i \in 1..Len(rec.calls)}
           THEN [called EXCEPT !.pc = "done"]
         ELSE IF rec.op = "qualify" /\ ~ViewIsInReview(view)
           THEN [thrown EXCEPT !.error = CannotQualifyInStatus(view)]
         ELSE called
    [] call = "execute" -> HandlerEntry(w, called)

\* A worker sends a request to ReviewGoalController, QualifyGoalController or
\* CompleteGoalController (a new CLI process runs handle, up to its first await).
ControllerHandle(w, op, g) ==
  /\ ~InFlight(w)
  /\ begun < MaxInvocations
  /\ inv' = [inv EXCEPT ![w] =
               ControllerCall(w, [Idle EXCEPT !.pc = "controller", !.op = op, !.goal = g])]
  /\ begun' = begun + 1
  /\ UNCHANGED <<now, claimsFile, events, rows, aggVars>>

\* handle goes on with its next call.
ControllerStep(w) ==
  /\ inv[w].pc = "controller"
  /\ inv' = [inv EXCEPT ![w] = ControllerCall(w, inv[w])]
  /\ UNCHANGED <<now, claimsFile, events, rows, begun, aggVars>>

NextController ==
  \/ \E w \in Workers, op \in ControllerOps, g \in Goals : ControllerHandle(w, op, g)
  \/ \E w \in Workers : ControllerStep(w)
  \/ \E w \in Workers : Rehydrate(w)
  \/ \E w \in Workers : AppendEvent(w)
  \/ \E w \in Workers : UpdateClaimStore(w)
  \/ \E w \in Workers : Publish(w)
  \/ \E w \in Workers : Crash(w)
  \/ Tick

SpecController == Init /\ [][NextController]_vars

\* ------------------------------------------------- the aggregate on its own
\* The status each event type carries.
StatusOf(type) ==
  CASE type = ADDED -> TODO
    [] type = STARTED -> DOING
    [] type = PAUSED_EVT -> PAUSED
    [] type = RESUMED -> DOING
    [] type = SUBMITTED_FOR_REVIEW -> INREVIEW
    [] type = QUALIFIED_EVT -> QUALIFIED
    [] type = COMPLETED_EVT -> COMPLETED
    [] type = RESET_EVT -> TODO
    [] type = BLOCKED_EVT -> BLOCKED

EventTypes ==
  {ADDED, STARTED, PAUSED_EVT, RESUMED, SUBMITTED_FOR_REVIEW, QUALIFIED_EVT, COMPLETED_EVT,
   RESET_EVT, BLOCKED_EVT}

InitAgg ==
  /\ now = 0
  /\ claimsFile = Created.claimsFile
  /\ events = Created.events
  /\ rows = Created.rows
  /\ inv = [w \in Workers |-> Idle]
  /\ begun = 0
  /\ InitAggregate

\* Goal.apply(state, event) with the next event of an ordered event list.
ApplyEvent(type, note) ==
  /\ Len(hist) < MaxHist
  /\ note # Null => type \in {PAUSED_EVT, RESUMED, BLOCKED_EVT}
  /\ LET event == Event(type, agg.id, Len(hist) + 1, 0, StatusOf(type), note, NoClaim) IN
     /\ hist' = Append(hist, event)
     /\ agg' = apply(agg, event)
  /\ UNCHANGED <<aggRes, last, workersFile, registry, access, handlerVars>>

\* goal.<op>(...) on the current state; the event it produces is applied.
CallTransition(op, note) ==
  /\ Len(hist) < MaxHist
  /\ note # Null => op \in {"pause", "resume"}
  /\ LET claim == IF NeedsClaimData(op) THEN prepareClaim(0, agg.id, "wA", ClaimDuration)
                  ELSE NoClaim
         res == transition(agg, op, 0, note, claim) IN
     /\ hist' = IF res.ok THEN Append(hist, res.event) ELSE hist
     /\ agg' = IF res.ok THEN apply(agg, res.event) ELSE agg
     /\ aggRes' = [op |-> op, before |-> agg, ok |-> res.ok, event |-> res.event,
                   error |-> res.error, produced |-> Len(hist') - Len(hist)]
  /\ UNCHANGED <<last, workersFile, registry, access, handlerVars>>

NextAgg ==
  \/ \E type \in EventTypes, note \in Notes : ApplyEvent(type, note)
  \/ \E op \in Ops, note \in Notes : CallTransition(op, note)

SpecAgg == InitAgg /\ [][NextAgg]_vars

\* ---------------------------------------------------------------- claims
OwnerOps == {"pause", "submitForReview", "qualify", "complete", "reset"}

ActiveClaim(goalId) ==
  HasKey(claimsFile, goalId) /\ getClaim(claimsFile, goalId).claimExpiresAt > now

\* C1: while the store holds a non-expired claim of worker a on goal g, canClaim(g, b) of
\* any other worker b is rejected (CLAIMED_BY_ANOTHER_WORKER) with exactly the stored
\* claim attached, and canClaim(g, a) is allowed.
C1_ClaimExclusivity ==
  \A g \in Goals, a \in Workers : \A b \in Workers \ {a} :
    (ActiveClaim(g) /\ getClaim(claimsFile, g).claimedBy = a) =>
      /\ canClaim(claimsFile, now, g, b) =
           [allowed |-> FALSE, reason |-> "CLAIMED_BY_ANOTHER_WORKER",
            existingClaim |-> getClaim(claimsFile, g)]
      /\ canClaim(claimsFile, now, g, a).allowed

\* A command of wB was refused with the still active claim of wA attached.
C1_Witness ==
  /\ inv["wB"].pc = "failed"
  /\ ~inv["wB"].validation.allowed
  /\ inv["wB"].validation.existingClaim = getClaim(claimsFile, "g1")
  /\ ActiveClaim("g1")
  /\ getClaim(claimsFile, "g1").claimedBy = "wA"

\* C2 (as claimed): of two start/resume invocations of different workers on the same goal
\* that overlap, at most one gets past its event append and claim write.
C2_MutualExclusion ==
  \A a \in Workers : \A b \in Workers \ {a} :
    ~ /\ inv[a].pc = "publish" /\ inv[b].pc = "publish"
      /\ inv[a].goal = inv[b].goal
      /\ NeedsClaimData(inv[a].op) /\ NeedsClaimData(inv[b].op)

\* C3: a stored claim whose claimExpiresAt equals the clock is expired: canClaim allows
\* every requester; only a claim with claimExpiresAt > now can cause a rejection.
C3_ExpiryBoundary ==
  \A g \in Goals, w \in Workers :
    /\ (HasKey(claimsFile, g) /\ getClaim(claimsFile, g).claimExpiresAt = now) =>
         canClaim(claimsFile, now, g, w).allowed
    /\ ~canClaim(claimsFile, now, g, w).allowed => ActiveClaim(g)

\* wB was let through by the claim check at the instant the claim of wA expires.
C3_Witness ==
  /\ inv["wB"].pc = "rehydrate"
  /\ inv["wB"].goal = "g1"
  /\ HasKey(claimsFile, "g1")
  /\ getClaim(claimsFile, "g1").claimedBy = "wA"
  /\ getClaim(claimsFile, "g1").claimExpiresAt = now

\* C4: the claim store holds at most one claim per goalId, filed under its own goalId, so
\* at most one worker holds an active claim on a goal; a written claim replaces the one
\* stored before.
C4_OneClaimPerGoal ==
  \A g \in Goals :
    /\ Cardinality({e \in claimsFile : e.key = g}) <= 1
    /\ \A e \in claimsFile : e.key = e.claim.goalId
    /\ Cardinality({w \in Workers :
                      \E e \in claimsFile :
                        e.key = g /\ e.claim.claimedBy = w /\ e.claim.claimExpiresAt > now}) <= 1

\* wB resumed the goal wA had claimed: the store holds the claim of wB in place of it.
C4_Witness ==
  /\ inv["wB"].op = "resume"
  /\ inv["wB"].pc = "done"
  /\ claimsFile = {[key |-> "g1", claim |-> getClaim(claimsFile, "g1")]}
  /\ getClaim(claimsFile, "g1").claimedBy = "wB"

\* C5 (as claimed): the version fields of the events of a stream are 1, 2, ..., n in
\* stream order.
C5_ContiguousVersions ==
  \A g \in Goals : \A i \in 1..Len(events[g]) : events[g][i].version = i

LegalStep(from, to) == \E op \in Ops : from \in FromStatuses(op) /\ to = ToStatus(op)

\* C7 (as claimed): in every stream each event carries the To status of a transition
\* whose From set contains the status carried by the event before it.
C7_LegalSteps ==
  \A g \in Goals : \A i \in 2..Len(events[g]) :
    LegalStep(events[g][i - 1].status, events[g][i].status)

\* C8 (as claimed): pause, submitForReview, qualify, complete and reset take effect only
\* for the worker that owns the claim on the goal.
C8_OwnerOnly ==
  [][\A w \in Workers :
       (inv[w].pc = "append" /\ inv'[w].pc # "append" /\ inv[w].op \in OwnerOps) =>
         getClaim(claimsFile, inv[w].goal).claimedBy = w]_vars

HasCompleted(stream) == \E i \in 1..Len(stream) : stream[i].type = COMPLETED_EVT

\* C9 (as claimed): once a Completed event is in a stream, nothing is appended to it.
C9_CompletedIsTerminal ==
  [][\A g \in Goals : HasCompleted(events[g]) => events'[g] = events[g]]_vars

Prefix(n) == SubSeq(hist, 1, n)

\* C10: rehydrate over a list of N events yields version N (version 0, status to-do for
\* the empty list); each apply raises the version by exactly 1.
C10_VersionCountsEvents ==
  /\ rehydrate("g1", hist).version = Len(hist)
  /\ agg.version = Len(hist)
  /\ rehydrate("g1", << >>).version = 0 /\ rehydrate("g1", << >>).status = TODO
  /\ \A i \in 1..Len(hist) :
       apply(rehydrate("g1", Prefix(i - 1)), hist[i]).version =
         rehydrate("g1", Prefix(i - 1)).version + 1

\* A list whose last event, a reset, takes the status back to to-do at version Len.
C10_Witness ==
  /\ Len(hist) >= 3
  /\ hist[Len(hist)].type = RESET_EVT
  /\ hist[Len(hist) - 1].status # TODO
  /\ agg.status = TODO
  /\ agg.version = Len(hist)

InStream(event) ==
  \E i \in 1..Len(events[event.aggregateId]) :
    StripSeq(events[event.aggregateId][i]) = event

IsPrefix(s, t) == Len(s) <= Len(t) /\ s = SubSeq(t, 1, Len(s))

\* The order the spec's handler skeleton gives the side effects of an operation.
SpecOrder(op) ==
  IF op \in {"start", "resume", "complete", "reset"}
    THEN <<"append", "claimStore", "publish">>
    ELSE <<"append", "publish">>

\* C12: in every invocation the event is appended before the claim store is written
\* (start, resume) or released (complete, reset), and the claim store is updated before the
\* event is published; an invocation that has not appended its event neither changes the
\* claim store nor publishes.
C12_AppendClaimPublish ==
  [][/\ \A w \in Workers :
          inv'[w].op # Null => IsPrefix(inv'[w].effects, SpecOrder(inv'[w].op))
     /\ claimsFile' # claimsFile =>
          \E w \in Workers :
            /\ inv[w].pc = "claimStore"
            /\ inv[w].effects = <<"append">>
            /\ InStream(inv[w].event)
            /\ inv'[w].effects = <<"append", "claimStore">>
     /\ rows' # rows =>
          \E w \in Workers :
            /\ inv[w].pc = "publish"
            /\ InStream(inv[w].event)
            /\ inv[w].effects = SubSeq(SpecOrder(inv[w].op), 1, Len(SpecOrder(inv[w].op)) - 1)
     /\ \A w \in Workers :
          (inv'[w].pc = "failed" /\ inv'[w] # inv[w]) =>
            inv'[w].effects = << >> /\ claimsFile' = claimsFile /\ rows' = rows
    ]_vars

\* A start has appended its event and stored its claim and is about to publish, the read
\* model still showing to-do; the command of the other worker failed with no effect.
C12_Witness ==
  /\ inv["wA"].op = "start" /\ inv["wA"].pc = "publish"
  /\ inv["wA"].effects = <<"append", "claimStore">>
  /\ InStream(inv["wA"].event)
  /\ getClaim(claimsFile, "g1") = inv["wA"].claim
  /\ rows["g1"].status = TODO
  /\ inv["wB"].pc = "failed" /\ inv["wB"].effects = << >>

FailureCodes ==
  {"GOAL_NOT_FOUND", "GOAL_CLAIMED_BY_ANOTHER_WORKER"} \cup {ErrorCode(op) : op \in Ops}

\* C13: an invocation that fails with GOAL_NOT_FOUND, GOAL_CLAIMED_BY_ANOTHER_WORKER or an
\* illegal-transition error of the aggregate ends as a command failure carrying that error
\* and changes nothing: no event appended, claim store as it was (also for start and
\* resume, which compute claim data before the guard runs), nothing published.
C13_FailureChangesNothing ==
  [][\A w \in Workers :
       (inv'[w].pc = "failed" /\ inv'[w] # inv[w]) =>
         /\ inv'[w].error.code \in FailureCodes
         /\ inv'[w].effects = << >>
         /\ events' = events
         /\ claimsFile' = claimsFile
         /\ rows' = rows]_vars

\* A start of wA on the goal it is already doing was refused by the aggregate after the
\* claim data had been computed at a later clock time: the stored claim is the old one.
C13_Witness ==
  /\ inv["wA"].op = "start" /\ inv["wA"].pc = "failed"
  /\ inv["wA"].error.code = "CANNOT_START_IN_STATUS"
  /\ inv["wA"].error.status = DOING
  /\ now > 0
  /\ getClaim(claimsFile, "g1") = prepareClaim(0, "g1", "wA", ClaimDuration)
  /\ Len(events["g1"]) = 2

StreamState(log, goalId) == rehydrate(goalId, readStream(log, goalId))

\* C14: when a start of worker w, whose goal.start() ran at clock time t, returns, the
\* goal is doing with its version raised by exactly 1 and the claim store holds
\* {claimedBy w, claimedAt t, claimExpiresAt t + claim duration}; a start of another worker
\* while that claim has not expired fails with an error carrying exactly the claim's
\* claimExpiresAt and changes neither the event log nor the claim store.
C14_StartScenario ==
  [][\A w \in Workers :
       /\ (inv[w].op = "start" /\ inv[w].pc = "publish" /\ inv'[w].pc = "done") =>
            LET g == inv[w].goal
                t == inv[w].event.timestamp IN
            /\ StreamState(events', g).status = DOING
            /\ StreamState(events', g).version = rows[g].version + 1
            /\ rows'[g].status = DOING
            /\ rows'[g].version = rows[g].version + 1
            /\ getClaim(claimsFile', g) =
                 [goalId |-> g, claimedBy |-> w, claimedAt |-> t,
                  claimExpiresAt |-> t + ClaimDuration]
       /\ (begun' # begun /\ inv'[w] # inv[w] /\ inv'[w].op = "start"
             /\ rows[inv'[w].goal] # NoRow /\ ActiveClaim(inv'[w].goal)
             /\ getClaim(claimsFile, inv'[w].goal).claimedBy # w) =>
            /\ inv'[w].pc = "failed"
            /\ inv'[w].error.code = "GOAL_CLAIMED_BY_ANOTHER_WORKER"
            /\ inv'[w].error.expiresAt = getClaim(claimsFile, inv'[w].goal).claimExpiresAt
            /\ events' = events
            /\ claimsFile' = claimsFile]_vars

\* wA started g1 at a time t > 0; the start of wB before the expiry was refused with the
\* expiry of the claim of wA.
C14_Witness ==
  /\ inv["wA"].op = "start" /\ inv["wA"].pc = "done"
  /\ inv["wB"].op = "start" /\ inv["wB"].pc = "failed"
  /\ getClaim(claimsFile, "g1").claimedBy = "wA"
  /\ getClaim(claimsFile, "g1").claimedAt > 0
  /\ inv["wB"].error.expiresAt = getClaim(claimsFile, "g1").claimExpiresAt
  /\ StreamState(events, "g1").status = DOING
  /\ StreamState(events, "g1").version = 2

\* C15: pausing does not release the lease.  A paused goal still has its claim in the
\* store; a resume by a worker other than the claim's owner fails while the claim has not
\* expired; once the clock has reached claimExpiresAt the resume of another worker passes
\* the claim check, and when it returns the goal is doing and the claim store holds a claim
\* owned by that worker.
C15_PauseKeepsLease ==
  [][\A w \in Workers :
       /\ \A g \in Goals : StreamState(events, g).status = PAUSED => HasKey(claimsFile, g)
       /\ (begun' # begun /\ inv'[w] # inv[w] /\ inv'[w].op = "resume"
             /\ StreamState(events, inv'[w].goal).status = PAUSED
             /\ getClaim(claimsFile, inv'[w].goal).claimedBy # w) =>
            IF ActiveClaim(inv'[w].goal)
              THEN /\ inv'[w].pc = "failed"
                   /\ inv'[w].error.code = "GOAL_CLAIMED_BY_ANOTHER_WORKER"
              ELSE inv'[w].pc = "rehydrate"
       /\ (inv[w].op = "resume" /\ inv[w].pc \in {"rehydrate", "prepare"}
             /\ StreamState(events, inv[w].goal).status = PAUSED) =>
            inv'[w].pc # "failed"
       /\ (inv[w].op = "resume" /\ inv[w].pc = "publish" /\ inv'[w].pc = "done") =>
            /\ StreamState(events', inv[w].goal).status = DOING
            /\ rows'[inv[w].goal].status = DOING
            /\ getClaim(claimsFile', inv[w].goal).claimedBy = w]_vars

\* wA started and paused g1; after the claim of wA expired wB resumed it and holds the
\* claim.
C15_Witness ==
  /\ inv["wB"].op = "resume" /\ inv["wB"].pc = "done"
  /\ events["g1"][2].type = STARTED /\ events["g1"][2].claimedBy = "wA"
  /\ events["g1"][3].type = PAUSED_EVT
  /\ Len(events["g1"]) = 4 /\ events["g1"][4].claimedBy = "wB"
  /\ events["g1"][4].timestamp >= events["g1"][2].claimExpiresAt
  /\ StreamState(events, "g1").status = DOING
  /\ getClaim(claimsFile, "g1").claimedBy = "wB"

\* C16: when a complete or a reset returns, the claim store holds no claim for the goal
\* and canClaim on it is allowed for every worker; after a reset the goal is to-do and a
\* start by any worker passes the claim check and the aggregate's guard.
C16_ReleaseOnCompleteAndReset ==
  [][\A w \in Workers :
       (inv[w].op \in {"complete", "reset"} /\ inv[w].pc = "publish" /\ inv'[w].pc = "done") =>
         LET g == inv[w].goal IN
         /\ ~HasKey(claimsFile', g)
         /\ getClaim(claimsFile', g) = NoClaim
         /\ \A v \in Workers : canClaim(claimsFile', now', g, v) = Allowed
         /\ inv[w].op = "complete" =>
              StreamState(events', g).status = COMPLETED /\ rows'[g].status = COMPLETED
         /\ inv[w].op = "reset" =>
              /\ StreamState(events', g).status = TODO
              /\ rows'[g].status = TODO
              /\ \A v \in Workers :
                   transition(StreamState(events', g), "start", now', Null,
                              prepareClaim(now', g, v, ClaimDuration)).ok]_vars

\* wA reset the goal it had started and claimed: the claim is gone and the goal is to-do.
C16_Witness ==
  /\ inv["wA"].op = "reset" /\ inv["wA"].pc = "done"
  /\ Len(events["g1"]) >= 3
  /\ events["g1"][2].type = STARTED /\ events["g1"][2].claimedBy = "wA"
  /\ events["g1"][Len(events["g1"])].type = RESET_EVT
  /\ events["g1"][Len(events["g1"])].timestamp < events["g1"][2].claimExpiresAt
  /\ ~HasKey(claimsFile, "g1")
  /\ StreamState(events, "g1").status = TODO

\* C17: prepareRefreshedClaim and refreshClaim return a claim of the requesting worker
\* whose claimedAt is the claimedAt of the claim stored for the goal when there is one and
\* now when there is none, and whose claimExpiresAt is now + the given duration;
\* prepareRefreshedClaim leaves the store alone, refreshClaim stores the claim it returns.
C17_RefreshPreservesClaimedAt ==
  \A g \in Goals, w \in Workers, d \in 0..ClaimDuration :
    LET claim == prepareRefreshedClaim(claimsFile, now, g, w, d)
        refreshed == refreshClaim(claimsFile, now, g, w, d) IN
    /\ claim.goalId = g
    /\ claim.claimedBy = w
    /\ claim.claimExpiresAt = now + d
    /\ \A e \in claimsFile : e.key = g => claim.claimedAt = e.claim.claimedAt
    /\ (\A e \in claimsFile : e.key # g) => claim.claimedAt = now
    /\ refreshed.claim = claim
    /\ refreshed.store = setClaim(claimsFile, claim)

\* A resume prepared its claim after the stored claim had been written: the claim it is
\* about to store carries the older claimedAt and an expiry counted from the later clock.
C17_Witness ==
  \E w \in Workers :
    /\ inv[w].op = "resume" /\ inv[w].pc = "claimStore"
    /\ inv[w].claim.claimedAt < inv[w].event.timestamp
    /\ inv[w].claim.claimExpiresAt = inv[w].event.timestamp + ClaimDuration
    /\ inv[w].claim.claimedAt = getClaim(claimsFile, "g1").claimedAt

ClaimOf(event) ==
  [goalId |-> event.aggregateId, claimedBy |-> event.claimedBy,
   claimedAt |-> event.claimedAt, claimExpiresAt |-> event.claimExpiresAt]

\* C18 (as claimed): every claim held in the claim store satisfies
\* claimExpiresAt = claimedAt + the configured claim duration.
C18_ExpiryIsClaimedAtPlusDuration ==
  \A e \in claimsFile : e.claim.claimExpiresAt = e.claim.claimedAt + ClaimDuration

\* C18 (amended): every claim held in the claim store satisfies
\* claimExpiresAt >= claimedAt + the configured claim duration, with equality for the claim
\* of a Started event; a resume keeps claimedAt and counts the expiry from its own clock.
C18_ExpiryAtLeastClaimedAtPlusDuration ==
  \A e \in claimsFile :
    /\ e.claim.claimExpiresAt >= e.claim.claimedAt + ClaimDuration
    /\ \A i \in 1..Len(events[e.key]) :
         (events[e.key][i].type = STARTED /\ ClaimOf(events[e.key][i]) = e.claim) =>
           e.claim.claimExpiresAt = e.claim.claimedAt + ClaimDuration

\* The store holds a refreshed claim: claimedAt of the original start, expiry counted from
\* the later resume.
C18_Witness ==
  /\ HasKey(claimsFile, "g1")
  /\ getClaim(claimsFile, "g1").claimExpiresAt >
       getClaim(claimsFile, "g1").claimedAt + ClaimDuration
  /\ events["g1"][Len(events["g1"])].type = RESUMED
  /\ ClaimOf(events["g1"][Len(events["g1"])]) = getClaim(claimsFile, "g1")

\* C19: the claim a start or resume writes to the claim store is identical in claimedBy,
\* claimedAt and claimExpiresAt to the claim fields of the Started or Resumed event the
\* same invocation appended.
C19_StoredClaimIsEventClaim ==
  [][\A w \in Workers :
       (NeedsClaimData(inv[w].op) /\ inv[w].pc = "claimStore" /\ inv'[w].pc # "claimStore") =>
         /\ inv[w].event.type \in {STARTED, RESUMED}
         /\ InStream(inv[w].event)
         /\ HasKey(claimsFile', inv[w].goal)
         /\ getClaim(claimsFile', inv[w].goal) = ClaimOf(inv[w].event)
         /\ inv[w].event.claimedBy = w]_vars

\* A resume has stored its claim some time after it built its event: store and event carry
\* the same preserved claimedAt and the same expiry.
C19_Witness ==
  \E w \in Workers :
    /\ inv[w].op = "resume" /\ inv[w].pc = "publish"
    /\ InStream(inv[w].event)
    /\ getClaim(claimsFile, "g1") = ClaimOf(inv[w].event)
    /\ inv[w].event.claimedAt < inv[w].event.timestamp
    /\ now > inv[w].event.timestamp

StartedCount(stream) == Cardinality({i \in 1..Len(stream) : stream[i].type = STARTED})

\* C20 (as claimed): a start retried by the same worker, after its first attempt crashed
\* between the event append and the claim write, ends like an uninterrupted start: the
\* retry succeeds, the goal is doing, the stream holds a single Started event and the
\* claim is held by that worker.
C20_RetriedStartIsIdempotent ==
  \A w \in Workers :
    (/\ inv[w].op = "start"
     /\ inv[w].after = <<"append">>
     /\ inv[w].pc \in {"done", "failed"}
     /\ \A v \in Workers \ {w} : inv[v].pc = "idle") =>
      /\ inv[w].pc = "done"
      /\ StreamState(events, inv[w].goal).status = DOING
      /\ StartedCount(events[inv[w].goal]) = 1
      /\ getClaim(claimsFile, inv[w].goal).claimedBy = w

\* C21: whether a transition request is accepted is decided from the status of the
\* aggregate rehydrated from the event log (by start and resume one step before the
\* domain call), never from the read-model row: an invocation
\* (through a handler or through QualifyGoalController) is refused with a lifecycle error
\* only when the rehydrated status is not a From status of the transition, and it gets
\* past the guard only when it is one.
C21_GuardFromRehydratedState ==
  [][\A w \in Workers :
       LET op == inv'[w].op
           status == IF inv[w].pc = "prepare" THEN inv[w].state.status
                     ELSE StreamState(events, inv'[w].goal).status IN
       /\ (/\ inv'[w] # inv[w]
           /\ inv'[w].pc = "failed"
           /\ inv'[w].error.code \notin {NotFound.code, ClaimedByAnotherWorker(NoClaim).code})
            => status \notin FromStatuses(op)
       /\ (inv[w].pc \in {"rehydrate", "prepare"} /\ inv'[w].pc = "append")
            => status \in FromStatuses(op)]_vars

\* C22: the read model is never ahead of the event log: the version of a goal's
\* projection row is at most the number of events stored for that goal.
C22_ReadModelNeverAhead ==
  \A g \in Goals : findById(rows, g).version <= Len(events[g])

\* An invocation appended its event and published it: the row caught up with the log.
C22_Witness ==
  \E w \in Workers :
    /\ inv[w].pc = "done"
    /\ inv[w].effects = HandlerSteps(inv[w].op)
    /\ Len(events[inv[w].goal]) >= 2
    /\ findById(rows, inv[w].goal).version = Len(events[inv[w].goal])

\* C23: a lease never blocks a goal forever.  From the moment the clock has reached the
\* claimExpiresAt of a stored claim, and for as long as that claim is not replaced by a
\* new start or resume, canClaim allows every worker, with the expired entry still in
\* the store (no sweep, release or renewal is needed): the clock does not go back, and no
\* invocation on that goal is refused for the claim.
C23_ExpiredLeaseNeverBlocks ==
  [][\A g \in Goals :
       LET existingClaim == getClaim(claimsFile, g) IN
       (HasKey(claimsFile, g) /\ now >= existingClaim.claimExpiresAt) =>
         /\ \A w \in Workers : canClaim(claimsFile, now, g, w).allowed
         /\ now' >= now
         /\ getClaim(claimsFile', g) = existingClaim =>
              \A w \in Workers : canClaim(claimsFile', now', g, w).allowed
         /\ \A w \in Workers :
              (inv'[w] # inv[w] /\ inv'[w].goal = g) =>
                inv'[w].error.code # ClaimedByAnotherWorker(existingClaim).code]_vars

\* wB was let through by the claim check after the claim of wA had expired, with the
\* expired claim of wA still in the store.
C23_Witness ==
  /\ inv["wB"].pc = "rehydrate"
  /\ inv["wB"].goal = "g1"
  /\ HasKey(claimsFile, "g1")
  /\ getClaim(claimsFile, "g1").claimedBy = "wA"
  /\ getClaim(claimsFile, "g1").claimExpiresAt < now

\* The steps of the invocation of worker w after its first one.
HandlerStep(w) ==
  \/ Rehydrate(w)
  \/ PrepareClaimAndTransition(w)
  \/ AppendEvent(w)
  \/ UpdateClaimStore(w)
  \/ Publish(w)

\* The invocations of the workers interleave at one instant of the clock (how an
\* invocation ends does not wait for the clock), and every CLI process is scheduled
\* until it exits.
NextLive ==
  \/ \E w \in Workers, op \in Ops, g \in Goals, note \in Notes :
       FindByIdCanClaim(w, op, g, note)
  \/ \E w \in Workers : Rehydrate(w)
  \/ \E w \in Workers : PrepareClaimAndTransition(w)
  \/ \E w \in Workers : AppendEvent(w)
  \/ \E w \in Workers : UpdateClaimStore(w)
  \/ \E w \in Workers : Publish(w)

SpecLive == Init /\ [][NextLive]_vars /\ \A w \in Workers : WF_vars(HandlerStep(w))

\* C24: every command invocation terminates: an invocation that is running ends (it has
\* run all of its steps, or it failed), and an invocation whose claim check is refused
\* fails in that very step with the claim-conflict error, without waiting or retrying.
C24_InvocationsTerminate ==
  /\ \A w \in Workers : InFlight(w) ~> inv[w].pc \in {"done", "failed"}
  /\ [][\A w \in Workers :
          (/\ ~InFlight(w)
           /\ inv'[w] # inv[w]
           /\ findById(rows, inv'[w].goal) # NoRow
           /\ ~canClaim(claimsFile, now, inv'[w].goal, w).allowed)
            => (/\ inv'[w].pc = "failed"
                /\ inv'[w].error = ClaimedByAnotherWorker(getClaim(claimsFile, inv'[w].goal))
                /\ inv'[w].effects = << >>)]_vars

\* wB was refused for the claim of wA, and wA ran a command to its last step.
C24_Witness ==
  /\ inv["wB"].pc = "failed"
  /\ inv["wB"].error.code = ClaimedByAnotherWorker(NoClaim).code
  /\ inv["wA"].pc = "done"
  /\ inv["wA"].effects = HandlerSteps(inv["wA"].op)

\* The calls made so far by the controller request of worker w, in the next state.
CalledNext(w) == {inv'[w].calls[i] : i \in 1..Len(inv'[w].calls)}

\* C25: in ReviewGoalController, QualifyGoalController and CompleteGoalController the
\* claim check is the first call.  A request whose claim check is refused fails in that
\* step with the claimed-by-another-worker error that carries the claimExpiresAt of the
\* competing claim; the read model was not queried, the command handler was not invoked
\* and no store changed.
C25_ControllerClaimCheckFirst ==
  [][\A w \in Workers :
       (inv'[w] # inv[w] /\ inv'[w].calls # << >>) =>
         /\ inv'[w].calls[1] = "canClaim"
         /\ (~InFlight(w) /\ ~canClaim(claimsFile, now, inv'[w].goal, w).allowed) =>
              /\ inv'[w].pc = "failed"
              /\ inv'[w].error.code = "GOAL_CLAIMED_BY_ANOTHER_WORKER"
              /\ inv'[w].error.expiresAt = getClaim(claimsFile, inv'[w].goal).claimExpiresAt
              /\ CalledNext(w) = {"canClaim"}
              /\ inv'[w].effects = << >>
              /\ UNCHANGED <<claimsFile, events, rows>>]_vars

\* wB's request to CompleteGoalController was refused for the claim of wA.
C25_Witness ==
  /\ inv["wB"].pc = "failed"
  /\ inv["wB"].op = "complete"
  /\ inv["wB"].calls = <<"canClaim">>
  /\ inv["wB"].error.code = "GOAL_CLAIMED_BY_ANOTHER_WORKER"
  /\ inv["wB"].error.expiresAt = ClaimDuration
  /\ getClaim(claimsFile, "g1").claimedBy = "wA"

\* C26: QualifyGoalController decides on the status in the goal view.  When it is not
\* in-review the request fails with the cannot-qualify error naming that status, the
\* command handler is not invoked and no store changes; when it is in-review (the claim
\* check has passed before) the controller goes on and its next call is the handler
\* (unless the process dies).
C26_QualifyControllerChecksView ==
  [][\A w \in Workers :
       LET view == findById(rows, inv[w].goal) IN
       (/\ inv[w].pc = "controller" /\ inv[w].op = "qualify"
        /\ inv'[w] # inv[w] /\ inv'[w].pc # "crashed") =>
         /\ (inv[w].calls = <<"canClaim">> /\ view # NoRow /\ view.status # INREVIEW) =>
              /\ inv'[w].pc = "failed"
              /\ inv'[w].error.code = "CANNOT_QUALIFY_IN_STATUS"
              /\ inv'[w].error.status = view.status
              /\ "execute" \notin CalledNext(w)
              /\ UNCHANGED <<claimsFile, events, rows>>
         /\ (inv[w].calls = <<"canClaim">> /\ view.status = INREVIEW) =>
              /\ inv'[w].pc = "controller"
              /\ inv'[w].calls = <<"canClaim", "findById">>
         /\ inv[w].calls = <<"canClaim", "findById">> =>
              /\ inv'[w].calls = <<"canClaim", "findById", "execute">>
              /\ inv'[w].pc \in {"rehydrate", "failed"}]_vars

\* wA qualified the goal through the controller; the later qualify request of wB was
\* refused by the controller for the view's status qualified.
C26_Witness ==
  /\ inv["wA"].op = "qualify"
  /\ inv["wA"].pc = "done"
  /\ inv["wA"].effects = HandlerSteps("qualify")
  /\ inv["wB"].op = "qualify"
  /\ inv["wB"].pc = "failed"
  /\ inv["wB"].calls = <<"canClaim", "findById">>
  /\ inv["wB"].error.code = "CANNOT_QUALIFY_IN_STATUS"
  /\ inv["wB"].error.status = QUALIFIED

\* --------------------------------------------- the qualified projector on its own
\* The rows a goal can have in goal_views before its Qualified event is projected.
RowSamples(g) ==
  {NoRow} \cup
  {[objective |-> g, status |-> status, version |-> 2, createdAt |-> 0, updatedAt |-> 0,
    claimedBy |-> claim.claimedBy, claimedAt |-> claim.claimedAt,
    claimExpiresAt |-> claim.claimExpiresAt] :
     status \in {DOING, INREVIEW}, claim \in {NoClaim, prepareClaim(0, g, "wA", ClaimDuration)}}

InitProjector ==
  /\ now = 0
  /\ claimsFile = Created.claimsFile
  /\ events = Created.events
  /\ rows \in [Goals -> UNION {RowSamples(g) : g \in Goals}]
  /\ \A g \in Goals : rows[g] \in RowSamples(g)
  /\ inv = [w \in Workers |-> Idle]
  /\ begun = 0
  /\ InitAggregate

\* projector.applyGoalQualified(event)
ApplyGoalQualified(g, version, timestamp) ==
  LET event == Event(QUALIFIED_EVT, g, version, timestamp, QUALIFIED, Null, NoClaim) IN
  /\ rows' = applyGoalQualified(rows, event)
  /\ last' = [fn |-> "applyGoalQualified", event |-> event, before |-> rows]
  /\ UNCHANGED <<now, claimsFile, events, inv, begun, hist, agg, aggRes,
               workersFile, registry, access>>

NextProjector ==
  \E g \in Goals, version \in 1..MaxHist, timestamp \in 0..MaxTime :
    ApplyGoalQualified(g, version, timestamp)

SpecProjector == InitProjector /\ [][NextProjector]_vars

\* C27: applying a Qualified event to the read model sets the goal's row to the event's
\* status, clears claimedBy, claimedAt and claimExpiresAt, sets version to the event's
\* version and updatedAt to the event's timestamp; the row's other columns and every
\* other row stay as they were, and when the goal has no row nothing changes.
C27_QualifiedProjection ==
  last.fn = "applyGoalQualified" =>
    LET g == last.event.aggregateId
        before == findById(last.before, g)
        after == findById(rows, g) IN
    /\ before = NoRow => rows = last.before
    /\ before # NoRow =>
         /\ after.status = last.event.status
         /\ after.claimedBy = Null /\ after.claimedAt = -1 /\ after.claimExpiresAt = -1
         /\ after.version = last.event.version
         /\ after.updatedAt = last.event.timestamp
         /\ after.objective = before.objective /\ after.createdAt = before.createdAt
         /\ DOMAIN after = DOMAIN before
    /\ \A h \in Goals \ {g} : findById(rows, h) = findById(last.before, h)

\* The Qualified event of g1 was projected on a row that named wA as claimant, next to a
\* row of g2 that is not qualified.
C27_Witness ==
  /\ last.fn = "applyGoalQualified"
  /\ last.event.aggregateId = "g1"
  /\ findById(last.before, "g1").claimedBy = "wA"
  /\ findById(rows, "g1").status = QUALIFIED
  /\ findById(rows, "g1").version = MaxHist
  /\ findById(rows, "g2").status = DOING
  /\ findById(rows, "g2").claimedBy = "wA"

\* ------------------------------------------------------ the event log on its own
NoAppend == [fn |-> Null, goalId |-> Null, nextSeq |-> 0, result |-> << >>,
             appended |-> [g \in Goals |-> << >>]]

InitEventLog ==
  /\ now = 0
  /\ claimsFile = Created.claimsFile
  /\ events = [g \in Goals |-> << >>]
  /\ rows = Created.rows
  /\ inv = [w \in Workers |-> Idle]
  /\ begun = 0
  /\ hist = << >>
  /\ agg = EmptyGoalState("g1")
  /\ aggRes = NoCall
  /\ last = NoAppend
  /\ InitNoRegistry

\* store.append(event) -> {nextSeq}
AppendCall(g, type) ==
  /\ Len(events[g]) < MaxHist
  /\ LET event == Event(type, g, Len(events[g]) + 1, 0, StatusOf(type), Null, NoClaim) IN
     /\ events' = append(events, event)
     /\ last' = [last EXCEPT !.fn = "append", !.goalId = g,
                             !.nextSeq = events'[g][Len(events'[g])].seq,
                             !.result = << >>,
                             !.appended = [@ EXCEPT ![g] = Append(@, event)]]
  /\ UNCHANGED <<now, claimsFile, rows, inv, begun, hist, agg, aggRes,
               workersFile, registry, access>>

\* store.readStream(aggregateId)
ReadStreamCall(g) ==
  /\ last' = [last EXCEPT !.fn = "readStream", !.goalId = g, !.nextSeq = 0,
                          !.result = readStream(events, g)]
  /\ UNCHANGED <<now, claimsFile, events, rows, inv, begun, hist, agg, aggRes,
               workersFile, registry, access>>

NextEventLog ==
  \/ \E g \in Goals, type \in {QUALIFIED_EVT, COMPLETED_EVT} : AppendCall(g, type)
  \/ \E g \in Goals : ReadStreamCall(g)

SpecEventLog == InitEventLog /\ [][NextEventLog]_vars

\* C28: the event log numbers the events of each aggregateId on their own: the first
\* stored event has seq 1 and every append adds one (append returns that number),
\* whatever is appended to other aggregates.  readStream returns the events of the
\* aggregate in append order without the seq field, and the empty list for an
\* aggregate without events.
C28_SequencePerAggregate ==
  /\ \A g \in Goals : \A i \in 1..Len(events[g]) : events[g][i].seq = i
  /\ last.fn = "append" => last.nextSeq = Len(last.appended[last.goalId])
  /\ \A g \in Goals :
       /\ readStream(events, g) = last.appended[g]
       /\ \A i \in 1..Len(events[g]) : "seq" \notin DOMAIN readStream(events, g)[i]
       /\ last.appended[g] = << >> => readStream(events, g) = << >>
  /\ last.fn = "readStream" => last.result = last.appended[last.goalId]

\* Two events of different types were appended to g1 and one to g2,
\* and the stream of g1 was read.
C28_Witness ==
  /\ last.fn = "readStream"
  /\ last.goalId = "g1"
  /\ Len(last.result) = 2
  /\ last.result[1].type = QUALIFIED_EVT
  /\ last.result[2].type = COMPLETED_EVT
  /\ Len(events["g2"]) = 1
  /\ events["g1"][2].seq = 2

\* ---------------------------------------------------- the claim store on its own
\* The store instances that work on the same directory.
Stores == {"store", "newStore"}

\* The claims the store operations are called with.
ClaimSamples ==
  {prepareClaim(clock, g, w, ClaimDuration) : clock \in 0..MaxTime, g \in Goals, w \in Workers}

NoStoreCall ==
  [fn |-> Null, store |-> Null, goalId |-> Null, claim |-> NoClaim, result |-> NoClaim,
   before |-> {}, stored |-> [g \in Goals |-> NoClaim]]

InitClaimStore ==
  /\ now = 0
  /\ claimsFile = {}
  /\ events = Created.events
  /\ rows = Created.rows
  /\ inv = [w \in Workers |-> Idle]
  /\ begun = 0
  /\ hist = << >>
  /\ agg = EmptyGoalState("g1")
  /\ aggRes = NoCall
  /\ last = NoStoreCall
  /\ InitNoRegistry

\* store.setClaim(claim): load the claims file, set the entry, save the file.
SetClaimCall(s, claim) ==
  /\ claimsFile' = setClaim(claimsFile, claim)
  /\ last' = [fn |-> "setClaim", store |-> s, goalId |-> claim.goalId, claim |-> claim,
              result |-> NoClaim, before |-> claimsFile,
              stored |-> [last.stored EXCEPT ![claim.goalId] = claim]]
  /\ UNCHANGED <<now, events, rows, inv, begun, hist, agg, aggRes,
               workersFile, registry, access>>

\* store.releaseClaim(goalId): load the claims file, delete the entry, save the file.
ReleaseClaimCall(s, g) ==
  /\ claimsFile' = releaseClaim(claimsFile, g)
  /\ last' = [fn |-> "releaseClaim", store |-> s, goalId |-> g, claim |-> NoClaim,
              result |-> NoClaim, before |-> claimsFile,
              stored |-> [last.stored EXCEPT ![g] = NoClaim]]
  /\ UNCHANGED <<now, events, rows, inv, begun, hist, agg, aggRes,
               workersFile, registry, access>>

\* store.getClaim(goalId): load the claims file, return the entry or null.
GetClaimCall(s, g) ==
  /\ last' = [fn |-> "getClaim", store |-> s, goalId |-> g, claim |-> NoClaim,
              result |-> getClaim(claimsFile, g), before |-> claimsFile,
              stored |-> last.stored]
  /\ UNCHANGED <<now, claimsFile, events, rows, inv, begun, hist, agg, aggRes,
               workersFile, registry, access>>

NextClaimStore ==
  \/ \E s \in Stores, claim \in ClaimSamples : SetClaimCall(s, claim)
  \/ \E s \in Stores, g \in Goals : ReleaseClaimCall(s, g)
  \/ \E s \in Stores, g \in Goals : GetClaimCall(s, g)

SpecClaimStore == InitClaimStore /\ [][NextClaimStore]_vars

\* C29: getClaim(g) returns null when no claim was ever stored for g or after
\* releaseClaim(g), and otherwise exactly the claim last passed to setClaim for g,
\* whichever store instance on the directory wrote it and whichever reads it.
C29_GetClaimReturnsLastSet ==
  /\ \A g \in Goals : getClaim(claimsFile, g) = last.stored[g]
  /\ last.fn = "getClaim" => last.result = last.stored[last.goalId]

\* A new store instance read the claim of wB stored for g1, while g2 has no claim.
C29_Witness ==
  /\ last.fn = "getClaim"
  /\ last.store = "newStore"
  /\ last.goalId = "g1"
  /\ last.result = prepareClaim(MaxTime, "g1", "wB", ClaimDuration)
  /\ getClaim(claimsFile, "g2") = NoClaim

\* C30: setClaim for goal g and releaseClaim(g) change only the entry of g: the claims
\* of all other goals are the same after the operation as before it, and releaseClaim
\* on a goal that has no claim leaves the claims as they are.
C30_OnlyOwnEntryChanges ==
  last.fn \in {"setClaim", "releaseClaim"} =>
    /\ \A h \in Goals \ {last.goalId} :
         /\ HasKey(claimsFile, h) = HasKey(last.before, h)
         /\ getClaim(claimsFile, h) = getClaim(last.before, h)
    /\ (last.fn = "releaseClaim" /\ ~HasKey(last.before, last.goalId)) =>
         claimsFile = last.before

\* releaseClaim was called for g1, which had no claim, while g2 has one.
C30_Witness ==
  /\ last.fn = "releaseClaim"
  /\ last.goalId = "g1"
  /\ ~HasKey(last.before, "g1")
  /\ HasKey(claimsFile, "g2")
  /\ getClaim(claimsFile, "g2").claimedBy = "wA"

\* The claim store on a directory whose claims.json cannot be read or parsed.
InitBadFile ==
  /\ now = 0
  /\ claimsFile \in BadFiles
  /\ events = Created.events
  /\ rows = Created.rows
  /\ inv = [w \in Workers |-> Idle]
  /\ begun = 0
  /\ hist = << >>
  /\ agg = EmptyGoalState("g1")
  /\ aggRes = NoCall
  /\ last = NoStoreCall
  /\ InitNoRegistry

SpecBadFile == InitBadFile /\ [][NextClaimStore]_vars

MaxAccesses == 3

SessionKeys == {"k1", "k2"}

\* randomUUID(): the n-th identifier generated (collisions are not modelled).
randomUUID(n) == n

\* workers.json is the JSON object {entries: {hostSessionKey: entry}}: a set of entries.
loadRegistry(file) == file

saveRegistry(entries) == entries

EntryOf(entries, hostSessionKey) ==
  IF \E e \in entries : e.hostSessionKey = hostSessionKey
    THEN (CHOOSE e \in entries : e.hostSessionKey = hostSessionKey).workerId
    ELSE NoWorkerId

NoAccess ==
  [fn |-> Null, hostSessionKey |-> Null, result |-> NoWorkerId, uuids |-> 0, accesses |-> 0,
   first |-> [k \in SessionKeys |-> NoWorkerId]]

InitRegistry ==
  /\ now = 0
  /\ claimsFile = Created.claimsFile
  /\ events = Created.events
  /\ rows = Created.rows
  /\ inv = [w \in Workers |-> Idle]
  /\ begun = 0
  /\ hist = << >>
  /\ agg = EmptyGoalState("g1")
  /\ aggRes = NoCall
  /\ last = NoAccess
  /\ InitNoRegistry

\* A CLI process starts in the host session with key k and constructs its registry.
NewRegistry(p, k) ==
  /\ registry[p].pc \in {"none", "resolved"}
  /\ last.accesses < MaxAccesses
  /\ registry' = [registry EXCEPT ![p] = [NoRegistry EXCEPT !.pc = "new", !.hostSessionKey = k]]
  /\ last' = [last EXCEPT !.fn = Null, !.accesses = @ + 1]
  /\ UNCHANGED <<workersFile, handlerVars, hist, agg, aggRes, access>>

\* First access of workerId: resolveWorkerId resolves the key and loads the registry.
LoadRegistry(p) ==
  /\ registry[p].pc = "new"
  /\ registry' = [registry EXCEPT ![p].pc = "loaded", ![p].loaded = loadRegistry(workersFile)]
  /\ last' = [last EXCEPT !.fn = Null]
  /\ UNCHANGED <<workersFile, handlerVars, hist, agg, aggRes, access>>

\* resolveWorkerId goes on: the existing entry is touched (lastSeenAt), or a new entry
\* with a fresh workerId is added; the loaded registry is saved and the workerId returned.
SaveRegistry(p) ==
  /\ registry[p].pc = "loaded"
  /\ LET key == registry[p].hostSessionKey
         existing == EntryOf(registry[p].loaded, key)
         newWorkerId == randomUUID(last.uuids + 1)
         workerId == IF existing # NoWorkerId THEN existing ELSE newWorkerId
         entries == IF existing # NoWorkerId THEN registry[p].loaded
                    ELSE registry[p].loaded \cup
                           {[hostSessionKey |-> key, workerId |-> newWorkerId]} IN
     /\ workersFile' = saveRegistry(entries)
     /\ registry' = [registry EXCEPT ![p].pc = "resolved", ![p].loaded = {},
                                     ![p].resolvedWorkerId = workerId]
     /\ last' = [last EXCEPT !.fn = "workerId", !.hostSessionKey = key, !.result = workerId,
                             !.uuids = IF existing # NoWorkerId THEN @ ELSE @ + 1,
                             !.first = IF @[key] = NoWorkerId THEN [@ EXCEPT ![key] = workerId]
                                       ELSE @]
  /\ UNCHANGED <<handlerVars, hist, agg, aggRes, access>>

\* A later access of workerId by the same instance returns the cached value.
CachedWorkerId(p) ==
  /\ registry[p].pc = "resolved"
  /\ last' = [last EXCEPT !.fn = "workerId", !.hostSessionKey = registry[p].hostSessionKey,
                          !.result = registry[p].resolvedWorkerId]
  /\ UNCHANGED <<workersFile, registry, handlerVars, hist, agg, aggRes, access>>

NextRegistry ==
  \/ \E p \in Procs, k \in SessionKeys : NewRegistry(p, k)
  \/ \E p \in Procs : LoadRegistry(p)
  \/ \E p \in Procs : SaveRegistry(p)
  \/ \E p \in Procs : CachedWorkerId(p)

SpecRegistry == InitRegistry /\ [][NextRegistry]_vars

\* C32: the same host session key always maps to the same workerId: every access made
\* with session key k, by any registry instance of any process on the registry file,
\* returns the workerId first assigned to k, and the workerIds first assigned to two
\* different session keys differ.
C32_StableWorkerId ==
  /\ last.fn = "workerId" => last.result = last.first[last.hostSessionKey]
  /\ \A k1, k2 \in SessionKeys :
       (k1 # k2 /\ last.first[k1] # NoWorkerId) => last.first[k1] # last.first[k2]

\* C33: apply changes only the fields its event type is about: applying a Started,
\* SubmittedForReview, Qualified or Completed event sets status to the event's status
\* and adds one to version, and leaves id, objective, successCriteria, scopeIn,
\* scopeOut, boundaries and note exactly as they were.
C33_ApplyLeavesOtherFields ==
  [][(Len(hist') = Len(hist) + 1 /\
      hist'[Len(hist')].type \in {STARTED, SUBMITTED_FOR_REVIEW, QUALIFIED_EVT, COMPLETED_EVT})
       => agg' = [agg EXCEPT !.status = hist'[Len(hist')].status, !.version = @ + 1]]_vars

\* A SubmittedForReview event was applied to a blocked goal that carries a note.
C33_Witness ==
  /\ Len(hist) = 3
  /\ hist[1].type = ADDED
  /\ hist[2].type = BLOCKED_EVT
  /\ hist[2].note = "n1"
  /\ hist[3].type = SUBMITTED_FOR_REVIEW
  /\ agg.status = INREVIEW
  /\ agg.note = "n1"
  /\ agg.successCriteria = <<"criterion">>

\* C34: when command invocations do not overlap and none crashes, no worker appends a
\* transition event to a goal's stream while the claim store holds a non-expired claim on
\* that goal owned by a different worker.
C34_NoAppendUnderForeignClaim ==
  [][\A w \in Workers :
       (inv[w].pc = "append" /\ events' # events /\ inv'[w] # inv[w]) =>
         ~(ActiveClaim(inv[w].goal) /\ getClaim(claimsFile, inv[w].goal).claimedBy # w)]_vars

\* wB appended an event to the goal wA had claimed, after the claim of wA expired; wA
\* itself appended its start event before.
C34_Witness ==
  /\ inv["wB"].pc = "publish"
  /\ inv["wB"].goal = "g1"
  /\ Len(events["g1"]) = 3
  /\ HasKey(claimsFile, "g1")
  /\ getClaim(claimsFile, "g1").claimedBy = "wA"
  /\ getClaim(claimsFile, "g1").claimExpiresAt <= now

\* Non-overlapping invocations, any of which may die between two of its steps.
NextSeqCrash ==
  \/ NextSeq
  \/ \E w \in Workers : Crash(w)

SpecSeqCrash == Init /\ [][NextSeqCrash]_vars

\* C35: a crash of start or resume between the event append and the claim-store write
\* leaves a state where the last event of the goal's stream carries claim data naming the
\* crashed worker while the claim store holds what it held before the invocation (no
\* step of the invocation up to the crash has written it); if that is no claim or an
\* expired claim, canClaim on the goal is allowed for every worker.
C35_CrashBeforeClaimWrite ==
  [][\A w \in Workers :
       /\ (NeedsClaimData(inv[w].op) /\ inv[w].pc \in {"rehydrate", "prepare", "append"}) =>
            claimsFile' = claimsFile
       /\ (NeedsClaimData(inv[w].op) /\ inv[w].pc = "claimStore" /\ inv'[w].pc = "crashed") =>
            LET g == inv[w].goal
                stream == events'[g] IN
            /\ inv[w].effects = <<"append">>
            /\ stream[Len(stream)].claimedBy = w
            /\ stream[Len(stream)].type \in {STARTED, RESUMED}
            /\ claimsFile' = claimsFile
            /\ (~HasKey(claimsFile', g) \/ getClaim(claimsFile', g).claimExpiresAt <= now')
                 => \A v \in Workers : canClaim(claimsFile', now', g, v).allowed]_vars

\* wA died in start after its GoalStartedEvent was appended: nothing is claimed, and wB
\* passed the claim check on the goal.
C35_Witness ==
  /\ inv["wA"].pc = "crashed"
  /\ inv["wA"].op = "start"
  /\ inv["wA"].effects = <<"append">>
  /\ events["g1"][Len(events["g1"])].claimedBy = "wA"
  /\ ~HasKey(claimsFile, "g1")
  /\ inv["wB"].pc = "rehydrate"
  /\ inv["wB"].goal = "g1"

\* C36 (as claimed): the release performed by complete and reset never deletes a
\* non-expired claim owned by a worker other than the caller, also when another worker's
\* start or resume on the same goal runs between the caller's claim check and the
\* caller's release.
C36_ReleaseSparesForeignClaim ==
  [][\A w \in Workers :
       (inv[w].pc = "claimStore" /\ inv[w].op \in {"complete", "reset"} /\
        inv'[w].effects # inv[w].effects) =>
         ~(/\ ActiveClaim(inv[w].goal)
           /\ getClaim(claimsFile, inv[w].goal).claimedBy # w
           /\ ~HasKey(claimsFile', inv[w].goal))]_vars

C38_ClaimedAtIsOwnAcquisition ==
  \A e \in loadData(claimsFile) :
    \E i \in 1..Len(events[e.key]) :
      /\ events[e.key][i].type \in {STARTED, RESUMED}
      /\ events[e.key][i].claimedBy = e.claim.claimedBy
      /\ events[e.key][i].timestamp = e.claim.claimedAt

\* ------------------------------------- claim store calls of two processes, step by step
\* The claims files a run starts from: each goal unclaimed or claimed at time 0.
ClaimsFiles ==
  {{[key |-> c.goalId, claim |-> c] : c \in claims} :
     claims \in SUBSET {prepareClaim(0, "g1", "wA", ClaimDuration),
                        prepareClaim(0, "g2", "wB", ClaimDuration)}}

InitStoreRace ==
  /\ now = 0
  /\ claimsFile \in ClaimsFiles
  /\ events = Created.events
  /\ rows = Created.rows
  /\ inv = [w \in Workers |-> Idle]
  /\ begun = 0
  /\ hist = << >>
  /\ agg = EmptyGoalState("g1")
  /\ aggRes = NoCall
  /\ last = NoLast
  /\ InitNoRegistry

\* setClaim(claim), first statement: const data = this.loadData()
SetClaimLoad(p, claim) ==
  /\ access[p].pc \in {"idle", "returned"}
  /\ begun < MaxAccesses
  /\ begun' = begun + 1
  /\ access' = [access EXCEPT ![p] = [pc |-> "loaded", fn |-> "setClaim",
                                      goalId |-> claim.goalId, claim |-> claim,
                                      data |-> loadData(claimsFile)]]
  /\ UNCHANGED <<now, claimsFile, events, rows, inv, hist, agg, aggRes, last,
                 workersFile, registry>>

\* releaseClaim(goalId), first statement: const data = this.loadData()
ReleaseClaimLoad(p, g) ==
  /\ access[p].pc \in {"idle", "returned"}
  /\ begun < MaxAccesses
  /\ begun' = begun + 1
  /\ access' = [access EXCEPT ![p] = [pc |-> "loaded", fn |-> "releaseClaim",
                                      goalId |-> g, claim |-> NoClaim,
                                      data |-> loadData(claimsFile)]]
  /\ UNCHANGED <<now, claimsFile, events, rows, inv, hist, agg, aggRes, last,
                 workersFile, registry>>

\* The rest of the call: the entry is set or deleted in the loaded data, and
\* this.saveData(data) writes the whole document.
SaveData(p) ==
  /\ access[p].pc = "loaded"
  /\ claimsFile' = IF access[p].fn = "setClaim"
                     THEN setClaim(access[p].data, access[p].claim)
                     ELSE releaseClaim(access[p].data, access[p].goalId)
  /\ access' = [access EXCEPT ![p].pc = "returned", ![p].data = {}]
  /\ UNCHANGED <<now, events, rows, inv, begun, hist, agg, aggRes, last,
                 workersFile, registry>>

NextStoreRace ==
  \/ \E p \in Procs, claim \in ClaimSamples : SetClaimLoad(p, claim)
  \/ \E p \in Procs, g \in Goals : ReleaseClaimLoad(p, g)
  \/ \E p \in Procs : SaveData(p)

SpecStoreRace == InitStoreRace /\ [][NextStoreRace]_vars

\* The claims file shows the call process p has returned from.
Reflected(p) ==
  IF access[p].fn = "setClaim"
    THEN getClaim(claimsFile, access[p].goalId) = access[p].claim
    ELSE ~HasKey(claimsFile, access[p].goalId)

\* C39 (as claimed): when two processes perform setClaim or releaseClaim on two different
\* goals and their load-file and write-file steps interleave, neither update is lost:
\* once both have returned, the claims file reflects both operations.
C39_NoLostUpdate ==
  (/\ begun = 2
   /\ \A p \in Procs : access[p].pc = "returned"
   /\ access["p1"].goalId # access["p2"].goalId)
    => \A p \in Procs : Reflected(p)

====
